---- MODULE Spec2Model ----
(***************************************************************************)
(* cloudlist: the provider aggregation core.                               *)
(*                                                                         *)
(*   pkg/providers/aws/route53.go   route53Provider.GetResource and        *)
(*                                  route53Provider.listResourceRecords    *)
(*   pkg/inventory (same file, l. 82-134)   inventory.New, nameToProvider  *)
(*                                                                         *)
(* Go strings are sequences of one-character strings ("" is <<>>), so that *)
(* strings.TrimSuffix is computed and not assumed.  A Go pointer is a      *)
(* sequence of length at most one: <<>> is nil, <<v>> points to v.         *)
(***************************************************************************)
EXTENDS Naturals, Sequences, FiniteSets

VARIABLES
    blocks,      \* schema.Options: the configuration blocks handed to New
    bi,          \* New: index of the next block of the range loop
    inventory,   \* New: inventory.Providers
    warnings,    \* New: what gologger.Warningf was called with
    newRet,      \* New: the returned (inventory, err), <<>> before it returns
    runPc,       \* "new" | "ready" | "fetching" | "done"
    fetch,       \* one GetResource call per retained provider
    cancelled,   \* whether ctx has been cancelled
    merged,      \* the run's final collection
    failures,    \* the run's record of failed providers
    completion   \* providers in the order their GetResource calls ended

vars == <<blocks, bi, inventory, warnings, newRet, runPc, fetch, cancelled,
          merged, failures, completion>>

(***************************************************************************)
(* Bounds.                                                                 *)
(***************************************************************************)
\* Backend requests one GetResource call may issue before the model stops it.
MaxRequests == 4
\* Backend requests per GetResource call within a whole run.
MaxRunRequests == 3
\* Configuration blocks handed to New.
MaxBlocks == 3
\* Backend requests of the call that lists one zone of arbitrary records.
MaxNormRequests == 2

(***************************************************************************)
(* Pointers and strings.                                                   *)
(***************************************************************************)
Nil == <<>>
Ptr(v) == <<v>>
Deref(p) == p[1]

\* aws.BoolValue: false for a nil pointer.
BoolValue(p) == IF p = Nil THEN FALSE ELSE Deref(p)

\* aws.StringValue: "" for a nil pointer.
StringValue(p) == IF p = Nil THEN <<>> ELSE Deref(p)

HasSuffix(s, suffix) ==
    /\ Len(s) >= Len(suffix)
    /\ SubSeq(s, Len(s) - Len(suffix) + 1, Len(s)) = suffix

\* As TrimSuffix, but nothing is taken off.
TrimNothing(s, suffix) == s

RECURSIVE TrimRight(_, _)
\* As TrimSuffix, but the suffix is taken off as often as s ends with it.
TrimRight(s, suffix) ==
    IF HasSuffix(s, suffix) /\ suffix # <<>>
    THEN TrimRight(SubSeq(s, 1, Len(s) - Len(suffix)), suffix)
    ELSE s

\* strings.TrimSuffix: s without the suffix when s ends with it, else s.
TrimSuffix(s, suffix) ==
    IF HasSuffix(s, suffix) THEN SubSeq(s, 1, Len(s) - Len(suffix)) ELSE s

Dot == <<".">>

(***************************************************************************)
(* schema.Resources.                                                       *)
(***************************************************************************)
providerName == "aws"

\* Resources.Append: one element at the end.
AppendResource(list, resource) == Append(list, resource)

\* As Merge, with the other collection's elements put in front.
MergeFront(list, items) == items \o list

\* Resources.Merge: the other collection's elements at the end, in order.
Merge(list, items) == list \o items

\* errors.Wrap(err, message): the message in front of the cause.
Wrap(err, message) == <<message>> \o err

(***************************************************************************)
(* Normalization of one route53.ResourceRecordSet (route53.go l. 56-73).   *)
(***************************************************************************)
\* As Normalize, but every type that starts with "A" is retained.
NormalizePrefix(item, profile) ==
    IF item.Type \notin {"A", "AAAA"}
    THEN <<>>
    ELSE << [ Profile    |-> profile,
              DNSName    |-> TrimSuffix(item.Name, Dot),
              Public     |-> TRUE,
              PublicIPv4 |-> IF Len(item.ResourceRecords) >= 1
                             THEN StringValue(item.ResourceRecords[1].Value)
                             ELSE <<>>,
              Provider   |-> providerName ] >>

\* As Normalize, but the address is the last value of the record.
NormalizeLastValue(item, profile) ==
    IF item.Type # "A"
    THEN <<>>
    ELSE << [ Profile    |-> profile,
              DNSName    |-> TrimSuffix(item.Name, Dot),
              Public     |-> TRUE,
              PublicIPv4 |-> IF Len(item.ResourceRecords) >= 1
                             THEN StringValue(
                                 item.ResourceRecords[Len(item.ResourceRecords)].Value)
                             ELSE <<>>,
              Provider   |-> providerName ] >>

\* As Normalize, with the Profile and Provider fields filled from each
\* other's source.
NormalizeSwapped(item, profile) ==
    IF item.Type # "A"
    THEN <<>>
    ELSE << [ Profile    |-> providerName,
              DNSName    |-> TrimSuffix(item.Name, Dot),
              Public     |-> TRUE,
              PublicIPv4 |-> IF Len(item.ResourceRecords) >= 1
                             THEN StringValue(item.ResourceRecords[1].Value)
                             ELSE <<>>,
              Provider   |-> profile ] >>

Normalize(item, profile) ==
    IF item.Type # "A"
    THEN <<>>
    ELSE LET name == TrimSuffix(item.Name, Dot)
             ip4 == IF Len(item.ResourceRecords) >= 1
                    THEN StringValue(item.ResourceRecords[1].Value)
                    ELSE <<>>
         IN  << [ Profile    |-> profile,
                  DNSName    |-> name,
                  Public     |-> TRUE,
                  PublicIPv4 |-> ip4,
                  Provider   |-> providerName ] >>

RECURSIVE NormalizeAllFront(_, _, _)
\* As NormalizeAll, with each resource put in front of the list.
NormalizeAllFront(list, items, profile) ==
    IF items = <<>>
    THEN list
    ELSE LET r == Normalize(Head(items), profile)
         IN  NormalizeAllFront(IF r = <<>> THEN list ELSE <<r[1]>> \o list,
                               Tail(items), profile)

RECURSIVE NormalizeAll(_, _, _)
\* The range loop of l. 56-73: every item of one page, appended in page order.
NormalizeAll(list, items, profile) ==
    IF items = <<>>
    THEN list
    ELSE LET r == Normalize(Head(items), profile)
         IN  NormalizeAll(IF r = <<>> THEN list ELSE AppendResource(list, r[1]),
                          Tail(items), profile)

(***************************************************************************)
(* The Route53 backend.  A listing is a chain of pages: the request with   *)
(* no cursor (or the cursor "") is answered with page 1, and the cursor    *)
(* Token(k), which page k hands out, with page k+1.  A page is chosen when *)
(* it is first requested and is the same on every later request of it      *)
(* (zonePages, recPages).  As the SDK documents, NextMarker and            *)
(* NextRecordName are set whenever IsTruncated is true, and Marker echoes  *)
(* the request's marker; for a request without a marker the backend may    *)
(* leave Marker out (nil) or send it empty.  Hosted zone ids are numbered  *)
(* in listing order.                                                       *)
(***************************************************************************)
Token(k) == [i \in 1..k |-> "m"]

\* The page a cursor addresses.
PageOf(cursor) == Len(StringValue(cursor)) + 1

ContKinds == {"last", "more", "emptynext", "nilflag"}

IsTruncatedOf(cont) ==
    CASE cont = "last"      -> Ptr(FALSE)
      [] cont = "nilflag"   -> Nil
      [] OTHER              -> Ptr(TRUE)

NextCursorOf(cont, k) ==
    CASE cont = "more"      -> Ptr(Token(k))
      [] cont = "emptynext" -> Ptr(<<>>)
      [] OTHER              -> Nil

BackendError == <<"RequestError: send request failed">>

RecA1 == [ Name |-> <<"a", ".">>, Type |-> "A",
           ResourceRecords |-> << [Value |-> Ptr(<<"1">>)], [Value |-> Ptr(<<"2">>)] >> ]
RecA2 == [ Name |-> <<"b">>, Type |-> "A", ResourceRecords |-> <<>> ]
RecCname == [ Name |-> <<"c", ".">>, Type |-> "CNAME",
              ResourceRecords |-> << [Value |-> Ptr(<<"a", ".">>)] >> ]

\* What one page of resource record sets may hold.
RecordSetChoices == { <<>>, <<RecA1>>, <<RecCname, RecA2>>, <<RecA2, RecA1>> }

\* A request that fails.
ZoneFailure == [ ok |-> FALSE, n |-> 0, cont |-> "last", echo |-> Nil ]
RecordFailure == [ ok |-> FALSE, items |-> <<>>, cont |-> "last" ]

\* What the backend may answer to a request for a page it has not served yet.
ZoneChoices ==
    {ZoneFailure} \cup
    [ ok : {TRUE}, n : 0..2, cont : ContKinds, echo : {Nil, Ptr(<<>>)} ]

RecordChoices ==
    {RecordFailure} \cup
    [ ok : {TRUE}, items : RecordSetChoices, cont : ContKinds ]

\* A whole run fetches from small backends.
RunZoneChoices ==
    {ZoneFailure} \cup
    [ ok : {TRUE}, n : {1, 2}, cont : {"last"}, echo : {Nil} ]

RunRecordChoices ==
    {RecordFailure} \cup
    [ ok : {TRUE}, items : { <<RecA2, RecA1>> }, cont : {"last", "more"} ]

\* Any record the backend may hold: names with no, one or several trailing
\* delimiters, types equal to "A" or not, and no, one or several values, a
\* value being possibly left out (nil).
RawNames == { <<>>, <<"a">>, <<"a", ".">>, <<"a", ".", ".">>, <<".">>,
              <<".", ".">>, <<"a", ".", "b", ".">>, <<".", "a">> }
RawTypes == { "A", "AAAA", "CNAME", "a", "" }
RawValues == { <<>>,
               << [Value |-> Ptr(<<"1">>)] >>,
               << [Value |-> Ptr(<<"1">>)], [Value |-> Ptr(<<"2">>)] >>,
               << [Value |-> Nil], [Value |-> Ptr(<<"2">>)] >> }
RawRecords == [ Name : RawNames, Type : RawTypes, ResourceRecords : RawValues ]

\* The backend of one zone whose pages hold at most one record each.
NormZoneChoices == { [ ok |-> TRUE, n |-> 1, cont |-> "last", echo |-> Nil ] }

NormRecordChoices ==
    {RecordFailure} \cup
    [ ok : {TRUE}, items : {<<>>} \cup { <<r>> : r \in RawRecords },
      cont : {"last", "more"} ]

\* Page k of the zone listing, as the backend makes it up: n new zones.
NewZonePage(f, c, k) ==
    [ HostedZones |-> [i \in 1..c.n |-> [Id |-> f.nzones + i]],
      IsTruncated |-> IsTruncatedOf(c.cont),
      NextMarker  |-> NextCursorOf(c.cont, k),
      echo        |-> c.echo ]

\* Page k of one zone's record listing.
NewRecordPage(c, k) ==
    [ ResourceRecordSets |-> c.items,
      IsTruncated        |-> IsTruncatedOf(c.cont),
      NextRecordName     |-> NextCursorOf(c.cont, k) ]

(***************************************************************************)
(* route53Provider.GetResource.  A call's state:                           *)
(*   pc          "zones": about to call ListHostedZones (l. 27)            *)
(*               "records": inside listResourceRecords, about to call      *)
(*               ListResourceRecordSets (l. 52)                            *)
(*               "done": returned, "panic": nil pointer dereference        *)
(*   list, req, zoneOutput, zi      GetResource's locals (zi: the range    *)
(*                                  loop's position in HostedZones)        *)
(*   rlist, rreq                    listResourceRecords' list and req      *)
(*   ret                            the returned (list, err)               *)
(*   zonePages, recPages, nzones    the backend's pages served so far      *)
(*   log                            every request issued, with its answer  *)
(*   calls                          the zones listResourceRecords was      *)
(*                                  called with, in call order             *)
(*   returned                       what each listResourceRecords call     *)
(*                                  that ended without error returned      *)
(***************************************************************************)
NoOutput == [ HostedZones |-> <<>>, IsTruncated |-> Nil, NextMarker |-> Nil,
              Marker |-> Nil ]

NewCall(profile) ==
    [ pc |-> "zones", profile |-> profile,
      list |-> <<>>, req |-> [Marker |-> Nil], zoneOutput |-> NoOutput, zi |-> 0,
      rlist |-> <<>>, rreq |-> [HostedZoneId |-> 0, StartRecordName |-> Nil],
      ret |-> [list |-> Nil, err |-> Nil],
      zonePages |-> <<>>, recPages |-> <<>>, nzones |-> 0,
      log |-> <<>>, calls |-> <<>>, returned |-> <<>> ]

\* As Return, but an error does not end the call: the loop goes round
\* again and the request is issued once more.
ReturnRetry(f, list, err) ==
    IF err # Nil THEN f
    ELSE [f EXCEPT !.pc = "done", !.ret = [list |-> list, err |-> err]]

\* As Return, but what was accumulated is handed out with the error.
ReturnPartial(f, list, err) ==
    [f EXCEPT !.pc = "done", !.ret = [list |-> Ptr(f.list), err |-> err]]

\* l. 29, 34, 41: GetResource returns (list, err).
Return(f, list, err) ==
    [f EXCEPT !.pc = "done", !.ret = [list |-> list, err |-> err]]

\* l. 29: the error GetResource returns when ListHostedZones fails.
ZonesError(err) == Wrap(err, "could not list hosted zones")

\* l. 54 and 34: the error GetResource returns when ListResourceRecordSets
\* fails while the records of zone are listed.
RecordsError(err, zone) ==
    Wrap(Wrap(err, "could not list resource_record set"),
         "could not list hosted zones records")

\* l. 38: whether the zone loop goes round again.
MoreZones(zoneOutput) ==
    BoolValue(zoneOutput.IsTruncated) /\ Deref(zoneOutput.NextMarker) # <<>>

\* l. 39: req.SetMarker(*zoneOutput.Marker); a nil Marker cannot be read.
SetMarker(f) ==
    IF f.zoneOutput.Marker = Nil
    THEN [f EXCEPT !.pc = "panic"]
    ELSE [f EXCEPT !.pc = "zones", !.req.Marker = Ptr(Deref(f.zoneOutput.Marker))]

\* l. 38-42, after the range loop over the page's zones.
ZonesLoopEnd(f) ==
    IF MoreZones(f.zoneOutput) THEN SetMarker(f) ELSE Return(f, Ptr(f.list), Nil)

\* l. 31-32 and 48-49: the next zone of the page, if any, and the start of
\* listResourceRecords for it.
NextZone(f) ==
    IF f.zi < Len(f.zoneOutput.HostedZones)
    THEN LET zone == f.zoneOutput.HostedZones[f.zi + 1].Id
         IN  [f EXCEPT !.pc = "records", !.zi = @ + 1,
                       !.rreq = [HostedZoneId |-> zone, StartRecordName |-> Nil],
                       !.rlist = <<>>,
                       !.calls = Append(@, zone)]
    ELSE ZonesLoopEnd(f)

\* l. 27-31: one ListHostedZones request and what follows it up to the next
\* request.  c is the backend's answer if the page was not served before.
ListHostedZones(f, c, ctxDone) ==
    LET marker == f.req.Marker
        k == PageOf(marker)
        known == k <= Len(f.zonePages)
        page == IF known THEN f.zonePages[k] ELSE NewZonePage(f, c, k)
        zoneOutput == [ HostedZones |-> page.HostedZones,
                        IsTruncated |-> page.IsTruncated,
                        NextMarker  |-> page.NextMarker,
                        Marker      |-> IF marker = Nil THEN page.echo ELSE marker ]
        entry == [ op |-> "ListHostedZones", zone |-> 0, cursor |-> marker,
                   page |-> k, ok |-> c.ok, ctxDone |-> ctxDone,
                   IsTruncated |-> IF c.ok THEN page.IsTruncated ELSE Nil,
                   next |-> IF c.ok THEN page.NextMarker ELSE Nil ]
        g == [f EXCEPT !.log = Append(@, entry)]
    IN  IF ~c.ok
        THEN Return(g, Nil, ZonesError(BackendError))
        ELSE NextZone([g EXCEPT
                 !.zoneOutput = zoneOutput, !.zi = 0,
                 !.zonePages = IF known THEN @ ELSE Append(@, page),
                 !.nzones = IF known THEN @ ELSE @ + c.n,
                 !.recPages = IF known THEN @ ELSE @ \o [i \in 1..c.n |-> <<>>]])

\* l. 74: whether the record loop goes round again.
MoreRecords(sets) ==
    BoolValue(sets.IsTruncated) /\ Deref(sets.NextRecordName) # <<>>

\* l. 75: req.SetStartRecordName(*sets.NextRecordName).
SetStartRecordName(rreq, sets) ==
    [rreq EXCEPT !.StartRecordName = Ptr(Deref(sets.NextRecordName))]

\* l. 52-78 and 33-37: one ListResourceRecordSets request and what follows it
\* up to the next request.
ListResourceRecordSets(f, c, ctxDone) ==
    LET zone == f.rreq.HostedZoneId
        start == f.rreq.StartRecordName
        k == PageOf(start)
        known == k <= Len(f.recPages[zone])
        sets == IF known THEN f.recPages[zone][k] ELSE NewRecordPage(c, k)
        entry == [ op |-> "ListResourceRecordSets", zone |-> zone, cursor |-> start,
                   page |-> k, ok |-> c.ok, ctxDone |-> ctxDone,
                   IsTruncated |-> IF c.ok THEN sets.IsTruncated ELSE Nil,
                   next |-> IF c.ok THEN sets.NextRecordName ELSE Nil ]
        g == [f EXCEPT !.log = Append(@, entry)]
        items == NormalizeAll(f.rlist, sets.ResourceRecordSets, f.profile)
        h == [g EXCEPT !.recPages[zone] = IF known THEN @ ELSE Append(@, sets)]
    IN  IF ~c.ok
        THEN Return(g, Nil, RecordsError(BackendError, zone))
        ELSE IF MoreRecords(sets)
        THEN [h EXCEPT !.rlist = items, !.rreq = SetStartRecordName(@, sets)]
        ELSE NextZone([h EXCEPT !.rlist = items, !.list = Merge(@, items),
                                !.returned = Append(@, [zone |-> zone,
                                                        items |-> items])])

(***************************************************************************)
(* inventory.New and nameToProvider.  An OptionBlock is a function from    *)
(* its keys to their values.                                               *)
(***************************************************************************)
\* OptionBlock.GetMetadata: (value, found).
GetMetadata(block, key) ==
    IF key \in DOMAIN block
    THEN [value |-> block[key], ok |-> TRUE]
    ELSE [value |-> "", ok |-> FALSE]

\* The keys each provider's constructor asks for.
RequiredKeys(name) ==
    CASE name = "aws" -> {"aws_access_key", "aws_secret_key"}
      [] name = "do"  -> {"digitalocean_token"}
      [] name = "scw" -> {"scaleway_access_key", "scaleway_access_token"}
      [] OTHER        -> {"gcp_service_account_key"}

\* aws.New, digitalocean.New, gcp.New, scaleway.New: a provider holding the
\* block's profile, or an error when a required key is absent.
ProviderNew(name, block) ==
    IF RequiredKeys(name) \subseteq DOMAIN block
    THEN [ provider |-> Ptr([name |-> name,
                             profile |-> GetMetadata(block, "profile").value]),
           err |-> Nil ]
    ELSE [ provider |-> Nil, err |-> <<"missing required key">> ]

\* As nameToProvider, but the name is matched without regard to case.
nameToProviderFold(value, block) ==
    CASE value \in {"aws", "AWS"} -> ProviderNew("aws", block)
      [] value = "do"  -> ProviderNew("do", block)
      [] value = "gcp" -> ProviderNew("gcp", block)
      [] value = "scw" -> ProviderNew("scw", block)
      [] OTHER -> [ provider |-> Nil,
                    err |-> <<"invalid provider name found: ", value>> ]

\* l. 121-134.
nameToProvider(value, block) ==
    CASE value = "aws" -> ProviderNew("aws", block)
      [] value = "do"  -> ProviderNew("do", block)
      [] value = "gcp" -> ProviderNew("gcp", block)
      [] value = "scw" -> ProviderNew("scw", block)
      [] OTHER -> [ provider |-> Nil,
                    err |-> <<"invalid provider name found: ", value>> ]

\* As RetainProvider, keeping only the provider just made.
RetainProviderAlone(providers, provider, origin) ==
    <<[name |-> provider.name, profile |-> provider.profile, origin |-> origin]>>

\* As RetainProvider, with the provider put in front.
RetainProviderFront(providers, provider, origin) ==
    <<[name |-> provider.name, profile |-> provider.profile, origin |-> origin]>>
        \o providers

\* l. 115: inventory.Providers = append(inventory.Providers, provider).
\* origin is the model's note of the block a provider was made from.
RetainProvider(providers, provider, origin) ==
    Append(providers, [name |-> provider.name, profile |-> provider.profile,
                       origin |-> origin])

\* l. 105-115: one iteration of the range loop, for block i.
NewIteration(st, block, i) ==
    LET provider == GetMetadata(block, "provider")
        profile == GetMetadata(block, "profile")
        r == nameToProvider(provider.value, block)
    IN  IF ~provider.ok
        THEN st
        ELSE IF r.err # Nil
        THEN [st EXCEPT !.warnings =
                 Append(@, [value |-> provider.value, profile |-> profile.value,
                            err |-> r.err])]
        ELSE [st EXCEPT !.inventory = RetainProvider(@, Deref(r.provider), i)]

AwsBlock(profile) ==
    [ k \in {"provider", "profile", "aws_access_key", "aws_secret_key"} |->
        CASE k = "provider" -> "aws"
          [] k = "profile"  -> profile
          [] OTHER          -> "xxxx" ]

\* aws without its keys: construction fails.
AwsNoKeys == [ k \in {"provider", "profile"} |->
                 IF k = "provider" THEN "aws" ELSE "broken" ]

\* digitalocean, no profile.
DoBlock == [ k \in {"provider", "digitalocean_token"} |->
               IF k = "provider" THEN "do" ELSE "xxxx" ]

\* Names the switch does not know.
UnknownBlock == [ k \in {"provider", "profile"} |->
                    IF k = "provider" THEN "azure" ELSE "other" ]
UpperBlock == [ k \in {"provider", "aws_access_key", "aws_secret_key"} |->
                  IF k = "provider" THEN "AWS" ELSE "xxxx" ]

\* Not a provider declaration.
NoProviderBlock == [ k \in {"profile"} |-> "orphan" ]

BlockPool == { AwsBlock("staging"), AwsBlock("prod"), AwsNoKeys, DoBlock,
               UnknownBlock, UpperBlock, NoProviderBlock }

\* The blocks of a run: at most one block per profile, each block an unknown
\* name or a Route53 provider under that profile.
RunProfiles == <<"staging", "prod", "dev">>

RunBlockSeqs(n) ==
    UNION { { [ i \in 1..m |->
                  IF i \in aws THEN AwsBlock(RunProfiles[i])
                  ELSE UnknownBlock ] : aws \in SUBSET (1..m) } : m \in 0..n }

SeqsUpTo(S, n) == UNION { [1..m -> S] : m \in 0..n }

(***************************************************************************)
(* Actions.                                                                *)
(***************************************************************************)
\* New, l. 104-116: the loop body for the next block.
NewBlock ==
    /\ runPc = "new"
    /\ bi <= Len(blocks)
    /\ LET st == NewIteration([inventory |-> inventory, warnings |-> warnings],
                              blocks[bi], bi)
       IN  /\ inventory' = st.inventory
           /\ warnings' = st.warnings
    /\ bi' = bi + 1
    /\ UNCHANGED <<blocks, newRet, runPc, fetch, cancelled, merged, failures,
                   completion>>

\* New, l. 117: return inventory, nil.
NewReturn ==
    /\ runPc = "new"
    /\ bi > Len(blocks)
    /\ newRet' = Ptr([inventory |-> inventory, err |-> Nil])
    /\ runPc' = "ready"
    /\ UNCHANGED <<blocks, bi, inventory, warnings, fetch, cancelled, merged,
                   failures, completion>>

\* The answers to a request for a page served before: the same page, or a failure.
KnownZoneAnswers == { ZoneFailure, [ok |-> TRUE, n |-> 0, cont |-> "last", echo |-> Nil] }
KnownRecordAnswers == { RecordFailure, [ok |-> TRUE, items |-> <<>>, cont |-> "last"] }

Ended(f) == f.pc \in {"done", "panic"}

\* GetResource of provider p issues ListHostedZones.
ZoneRequest(p, choices, max) ==
    /\ runPc = "fetching"
    /\ p \in DOMAIN fetch
    /\ fetch[p].pc = "zones"
    /\ Len(fetch[p].log) < max
    /\ \E c \in IF PageOf(fetch[p].req.Marker) <= Len(fetch[p].zonePages)
                THEN KnownZoneAnswers ELSE choices :
           fetch' = [fetch EXCEPT ![p] = ListHostedZones(@, c, cancelled)]
    /\ completion' = IF fetch'[p].pc = "done" THEN Append(completion, p)
                     ELSE completion
    /\ UNCHANGED <<blocks, bi, inventory, warnings, newRet, runPc, cancelled,
                   merged, failures>>

\* GetResource of provider p, inside listResourceRecords, issues
\* ListResourceRecordSets.
RecordRequest(p, choices, max) ==
    /\ runPc = "fetching"
    /\ p \in DOMAIN fetch
    /\ fetch[p].pc = "records"
    /\ Len(fetch[p].log) < max
    /\ \E c \in IF PageOf(fetch[p].rreq.StartRecordName)
                     <= Len(fetch[p].recPages[fetch[p].rreq.HostedZoneId])
                THEN KnownRecordAnswers ELSE choices :
           fetch' = [fetch EXCEPT ![p] = ListResourceRecordSets(@, c, cancelled)]
    /\ completion' = IF fetch'[p].pc = "done" THEN Append(completion, p)
                     ELSE completion
    /\ UNCHANGED <<blocks, bi, inventory, warnings, newRet, runPc, cancelled,
                   merged, failures>>

\* ctx is cancelled while a fetch is in progress.
Cancel ==
    /\ runPc = "fetching"
    /\ ~cancelled
    /\ \E p \in DOMAIN fetch : ~Ended(fetch[p])
    /\ cancelled' = TRUE
    /\ UNCHANGED <<blocks, bi, inventory, warnings, newRet, runPc, fetch, merged,
                   failures, completion>>

(***************************************************************************)
(* The run (runner.Enumerate): one task per retained provider, all with    *)
(* the same ctx; when every task has returned, the collections of the      *)
(* calls that succeeded are merged in the order of inventory.Providers and *)
(* every failed call is recorded with its error.  A task that panics takes *)
(* the process down: nothing is collected.                                 *)
(***************************************************************************)
RECURSIVE MergeAll(_, _)
\* The collections of the calls that succeeded, merged in task order.
MergeAll(calls, p) ==
    IF p > Len(calls) THEN <<>>
    ELSE Merge(IF calls[p].ret.err = Nil THEN Deref(calls[p].ret.list) ELSE <<>>,
               MergeAll(calls, p + 1))

RECURSIVE FailuresOf(_, _, _)
\* The calls that failed, in task order: which provider, and why.
FailuresOf(calls, providers, p) ==
    IF p > Len(calls) THEN <<>>
    ELSE (IF calls[p].ret.err = Nil THEN <<>>
          ELSE <<[provider |-> providers[p], err |-> calls[p].ret.err]>>)
         \o FailuresOf(calls, providers, p + 1)

\* One GetResource task per provider is started.
FanOut ==
    /\ runPc = "ready"
    /\ \A p \in DOMAIN inventory : inventory[p].name = "aws"
    /\ fetch' = [p \in 1..Len(inventory) |-> NewCall(inventory[p].profile)]
    /\ runPc' = "fetching"
    /\ UNCHANGED <<blocks, bi, inventory, warnings, newRet, cancelled, merged,
                   failures, completion>>

\* Every task has returned: merge and record.
Collect ==
    /\ runPc = "fetching"
    /\ \A p \in DOMAIN fetch : fetch[p].pc = "done"
    /\ merged' = MergeAll(fetch, 1)
    /\ failures' = FailuresOf(fetch, inventory, 1)
    /\ runPc' = "done"
    /\ UNCHANGED <<blocks, bi, inventory, warnings, newRet, fetch, cancelled,
                   completion>>

(***************************************************************************)
(* Spec: one GetResource call of a constructed Route53 provider.           *)
(***************************************************************************)
Init ==
    /\ blocks = <<AwsBlock("staging")>>
    /\ bi = 2
    /\ inventory = <<[name |-> "aws", profile |-> "staging", origin |-> 1]>>
    /\ warnings = <<>>
    /\ newRet = Ptr([inventory |-> inventory, err |-> Nil])
    /\ runPc = "fetching"
    /\ fetch = <<NewCall("staging")>>
    /\ cancelled = FALSE
    /\ merged = <<>>
    /\ failures = <<>>
    /\ completion = <<>>

Next ==
    \/ ZoneRequest(1, ZoneChoices, MaxRequests)
    \/ RecordRequest(1, RecordChoices, MaxRequests)
    \/ Cancel

Spec == Init /\ [][Next]_vars

(***************************************************************************)
(* SpecNew: inventory.New over any sequence of configuration blocks.       *)
(***************************************************************************)
InitNew ==
    /\ blocks \in SeqsUpTo(BlockPool, MaxBlocks)
    /\ bi = 1
    /\ inventory = <<>>
    /\ warnings = <<>>
    /\ newRet = Nil
    /\ runPc = "new"
    /\ fetch = <<>>
    /\ cancelled = FALSE
    /\ merged = <<>>
    /\ failures = <<>>
    /\ completion = <<>>

NextNew == NewBlock \/ NewReturn

SpecNew == InitNew /\ [][NextNew]_vars

(***************************************************************************)
(* SpecRun: a whole run over Route53 providers and unknown ones.           *)
(***************************************************************************)
InitRun ==
    /\ blocks \in RunBlockSeqs(Len(RunProfiles))
    /\ bi = 1
    /\ inventory = <<>>
    /\ warnings = <<>>
    /\ newRet = Nil
    /\ runPc = "new"
    /\ fetch = <<>>
    /\ cancelled = FALSE
    /\ merged = <<>>
    /\ failures = <<>>
    /\ completion = <<>>

NextRun ==
    \/ NewBlock
    \/ NewReturn
    \/ FanOut
    \/ \E p \in DOMAIN RunProfiles : ZoneRequest(p, RunZoneChoices, MaxRunRequests)
    \/ \E p \in DOMAIN RunProfiles : RecordRequest(p, RunRecordChoices, MaxRunRequests)
    \/ Collect

SpecRun == InitRun /\ [][NextRun]_vars

(***************************************************************************)
(* SpecNorm: one GetResource call against a zone of arbitrary records.     *)
(***************************************************************************)
NextNorm ==
    \/ ZoneRequest(1, NormZoneChoices, MaxNormRequests)
    \/ RecordRequest(1, NormRecordChoices, MaxNormRequests)

SpecNorm == Init /\ [][NextNorm]_vars

(***************************************************************************)
(* Properties of one GetResource call (Spec).                              *)
(***************************************************************************)
\* Whether a logged answer asks for another page.
Truncated(e) == e.ok /\ BoolValue(e.IsTruncated) /\ StringValue(e.next) # <<>>

SameListing(d, e) == d.op = e.op /\ d.zone = e.zone

\* The request that follows request i in the same listing, 0 if none.  The
\* requests of one listResourceRecords call are consecutive in the log.
Following(log, i) ==
    IF log[i].op = "ListHostedZones"
    THEN LET later == { j \in DOMAIN log : j > i /\ log[j].op = "ListHostedZones" }
         IN  IF later = {} THEN 0 ELSE CHOOSE j \in later : \A k \in later : j <= k
    ELSE IF i < Len(log) /\ SameListing(log[i], log[i + 1]) THEN i + 1 ELSE 0

\* C1: in both listings, the request after a page that is truncated with a
\* non-empty next cursor carries exactly that cursor.
C1_NextRequestCarriesNextCursor ==
    \A p \in DOMAIN fetch :
        LET log == fetch[p].log
        IN  \A i \in DOMAIN log :
                (Truncated(log[i]) /\ Following(log, i) # 0)
                    => log[Following(log, i)].cursor = log[i].next

\* C2: when no request fails the call does not die, and no page of a listing
\* is requested twice.
C2_OneRequestPerPage ==
    \A p \in DOMAIN fetch :
        LET log == fetch[p].log
        IN  (\A i \in DOMAIN log : log[i].ok)
                => /\ fetch[p].pc # "panic"
                   /\ \A i, j \in DOMAIN log :
                          (i < j /\ SameListing(log[i], log[j]))
                              => log[i].page # log[j].page

\* C3: a loop issues another request after a page exactly when the page is
\* truncated with a non-empty next cursor; otherwise it stops, and the call
\* that ends there returns what it accumulated and no error.
C3_ContinueIffTruncatedAndCursor ==
    \A p \in DOMAIN fetch :
        LET f == fetch[p]
            log == f.log
        IN  \A i \in DOMAIN log :
                log[i].ok =>
                    IF log[i].op = "ListResourceRecordSets"
                    THEN IF Truncated(log[i])
                         THEN \/ Following(log, i) = i + 1
                              \/ /\ i = Len(log)
                                 /\ f.pc = "records"
                                 /\ f.rreq.HostedZoneId = log[i].zone
                         ELSE /\ Following(log, i) = 0
                              /\ i = Len(log) =>
                                    /\ f.returned # <<>>
                                    /\ f.returned[Len(f.returned)].zone = log[i].zone
                                    /\ HasSuffix(f.list, f.returned[Len(f.returned)].items)
                    ELSE IF Truncated(log[i])
                         THEN \/ Following(log, i) # 0
                              \/ f.pc \in {"zones", "records"}
                              \/ f.pc = "done" /\ f.ret.err # Nil
                         ELSE /\ Following(log, i) = 0
                              /\ f.pc \in {"records", "done"}
                              /\ (f.pc = "done" /\ log[Len(log)].ok)
                                     => f.ret = [list |-> Ptr(f.list), err |-> Nil]

\* The resource of an "A" record, written from the normalization rules.
ResourceOf(item, profile) ==
    [ Profile |-> profile,
      DNSName |-> IF item.Name # <<>> /\ item.Name[Len(item.Name)] = "."
                  THEN [i \in 1..(Len(item.Name) - 1) |-> item.Name[i]]
                  ELSE item.Name,
      Public |-> TRUE,
      PublicIPv4 |-> IF item.ResourceRecords = <<>> THEN <<>>
                     ELSE item.ResourceRecords[1].Value[1],
      Provider |-> "aws" ]

IsA(item) == item.Type = "A"

RECURSIVE ResourcesOf(_, _)
\* The "A" records of a sequence of items, as resources, in order.
ResourcesOf(items, profile) ==
    IF items = <<>> THEN <<>>
    ELSE (IF IsA(Head(items)) THEN <<ResourceOf(Head(items), profile)>> ELSE <<>>)
         \o ResourcesOf(Tail(items), profile)

RECURSIVE ItemsOf(_)
\* The items of a sequence of pages, page after page.
ItemsOf(pages) ==
    IF pages = <<>> THEN <<>>
    ELSE Head(pages).ResourceRecordSets \o ItemsOf(Tail(pages))

\* C4: a listResourceRecords call that ends without error returns the "A"
\* records of the zone's pages, normalized, in page order and in the order
\* within each page: none missing, duplicated or reordered.
C4_RecordsAreConcatenationOfPages ==
    \A p \in DOMAIN fetch :
        LET f == fetch[p]
        IN  \A i \in DOMAIN f.returned :
                LET items == ItemsOf(f.recPages[f.returned[i].zone])
                IN  /\ f.returned[i].items = ResourcesOf(items, f.profile)
                    /\ Len(f.returned[i].items) = Len(SelectSeq(items, IsA))

\* Three pages with 2, 2 and 1 "A" records were listed and gave 5 resources;
\* and a zone without records gave an empty collection.
C4_Witness ==
    \E i \in DOMAIN fetch[1].returned :
        LET pages == fetch[1].recPages[fetch[1].returned[i].zone]
        IN  /\ Len(pages) = 3
            /\ Len(pages[1].ResourceRecordSets) = 2
            /\ Len(pages[2].ResourceRecordSets) = 2
            /\ Len(pages[3].ResourceRecordSets) = 1
            /\ Len(fetch[1].returned[i].items) = 5

\* C5: listResourceRecords is called once per hosted zone, in listing order.
C5_OnceListedPerZone ==
    \A p \in DOMAIN fetch :
        fetch[p].calls = [i \in 1..Len(fetch[p].calls) |-> i]

\* C10: once ctx is cancelled during the call no page fetch succeeds any more,
\* and the call returns an error and no collection (the error's kind is left
\* open: any error counts as the cancellation error).
C10_CancelStopsTheFetch ==
    \A p \in DOMAIN fetch :
        /\ \A i \in DOMAIN fetch[p].log :
               ~(fetch[p].log[i].ok /\ fetch[p].log[i].ctxDone)
        /\ (cancelled /\ fetch[p].pc = "done")
               => (fetch[p].ret.list = Nil /\ fetch[p].ret.err # Nil)

(***************************************************************************)
(* Properties of inventory.New (SpecNew).                                  *)
(***************************************************************************)
RegisteredNames == {"aws", "do", "gcp", "scw"}

Declares(block) == "provider" \in DOMAIN block

\* A block that names a registered provider and holds the keys it asks for.
Resolves(block) ==
    /\ Declares(block)
    /\ block["provider"] \in RegisteredNames
    /\ RequiredKeys(block["provider"]) \subseteq DOMAIN block

RECURSIVE ProvidersOf(_, _)
\* One provider per resolving block among the first n, in block order.
ProvidersOf(bs, n) ==
    IF n = 0 THEN <<>>
    ELSE ProvidersOf(bs, n - 1) \o
         (IF Resolves(bs[n])
          THEN <<[ name |-> bs[n]["provider"],
                   profile |-> IF "profile" \in DOMAIN bs[n]
                               THEN bs[n]["profile"] ELSE "",
                   origin |-> n ]>>
          ELSE <<>>)

\* C6: New retains exactly one provider per block that declares a provider
\* and resolves, in block order, whatever the blocks before it were.
C6_RetainsEveryResolvingBlock ==
    /\ inventory = ProvidersOf(blocks, bi - 1)
    /\ newRet # Nil => Deref(newRet).inventory = ProvidersOf(blocks, Len(blocks))

\* New has returned two providers, made from the first and the last of its
\* blocks, with a block that fails to resolve between them.
C6_Witness ==
    /\ newRet # Nil
    /\ Len(inventory) = 2
    /\ inventory[1].origin = 1
    /\ inventory[2].origin = Len(blocks)
    /\ Declares(blocks[2]) /\ ~Resolves(blocks[2])

\* What New's result tells its caller about failed blocks: the error value.
ReportedFailures(ret) == IF ret.err = Nil THEN {} ELSE {ret.err}

\* C7: once New has returned, its result names every block whose resolution
\* failed.
C7_FailuresReachTheCaller ==
    newRet # Nil =>
        \A i \in DOMAIN blocks :
            (Declares(blocks[i]) /\ ~Resolves(blocks[i]))
                => \E r \in ReportedFailures(Deref(newRet)) :
                       \E k \in DOMAIN r : r[k] = blocks[i]["provider"]

(***************************************************************************)
(* Properties of a run (SpecRun).                                          *)
(***************************************************************************)
\* The task of the provider made from block i, 0 if there is none.
TaskOf(i) ==
    IF \E p \in DOMAIN inventory : inventory[p].origin = i
    THEN CHOOSE p \in DOMAIN inventory : inventory[p].origin = i
    ELSE 0

Succeeded(p) == fetch[p].pc = "done" /\ fetch[p].ret.err = Nil
Failed(p) == fetch[p].pc = "done" /\ fetch[p].ret.err # Nil

\* C8: with three providers A, B, C resolved in that order, of which B's
\* fetch fails and A's and C's succeed, the run ends with A's resources
\* followed by C's, and with the record of B's failure and its error.
C8_FailureOfBKeepsAAndC ==
    LET A == TaskOf(1)
        B == TaskOf(2)
        C == TaskOf(3)
    IN  ( /\ runPc = "done"
          /\ Len(inventory) = 3 /\ A # 0 /\ B # 0 /\ C # 0
          /\ Succeeded(A) /\ Failed(B) /\ Succeeded(C) )
        => /\ merged = Deref(fetch[A].ret.list) \o Deref(fetch[C].ret.list)
           /\ failures = <<[provider |-> inventory[B], err |-> fetch[B].ret.err]>>

C8_Witness ==
    /\ runPc = "done"
    /\ Len(inventory) = 3
    /\ Succeeded(1) /\ Failed(2) /\ Succeeded(3)
    /\ inventory[1].profile # inventory[3].profile
    /\ Len(Deref(fetch[1].ret.list)) = 2
    /\ Len(Deref(fetch[3].ret.list)) = 4
    /\ completion = <<3, 2, 1>>

RECURSIVE ZoneResources(_, _)
\* What the backend of call f holds in its first z zones, zone after zone.
ZoneResources(f, z) ==
    IF z = 0 THEN <<>>
    ELSE ZoneResources(f, z - 1) \o ResourcesOf(ItemsOf(f.recPages[z]), f.profile)

RECURSIVE ContributionsOf(_)
\* The backends' resources of the calls that succeeded, for the providers
\* made from the first n blocks, in block order.
ContributionsOf(n) ==
    IF n = 0 THEN <<>>
    ELSE ContributionsOf(n - 1) \o
         (IF TaskOf(n) # 0 /\ Succeeded(TaskOf(n))
          THEN ZoneResources(fetch[TaskOf(n)], fetch[TaskOf(n)].nzones)
          ELSE <<>>)

\* C9: whatever the order in which the fetches ran and ended, the final
\* collection holds the contributions in the order the providers were
\* resolved, each in the backend's zone and page order.
C9_MergeOrderIsResolutionOrder ==
    runPc = "done" => merged = ContributionsOf(Len(blocks))

\* Two providers contributed, and the second ended before the first.
C9_Witness ==
    /\ runPc = "done"
    /\ Len(inventory) >= 2
    /\ Succeeded(1) /\ Succeeded(2)
    /\ Len(fetch[1].recPages[1]) = 2
    /\ inventory[1].profile # inventory[2].profile
    /\ completion[1] = 2

(***************************************************************************)
(* Failed requests (Spec).                                                 *)
(***************************************************************************)
\* The requests of a log that failed.
FailedRequests(log) == { i \in DOMAIN log : ~log[i].ok }

\* C11: a request that fails is the last request of its call: nothing is
\* requested after it, the failed request included, and the call has
\* returned, once, with an error.
C11_FailureEndsTheCall ==
    \A p \in DOMAIN fetch :
        LET f == fetch[p]
        IN  \A i \in FailedRequests(f.log) :
                /\ i = Len(f.log)
                /\ f.pc = "done"
                /\ f.ret.err # Nil
                /\ Len(SelectSeq(completion, LAMBDA q : q = p)) = 1

\* A record page failed after three requests that succeeded.
C11_Witness ==
    /\ Len(fetch[1].log) = 4
    /\ FailedRequests(fetch[1].log) = {4}
    /\ fetch[1].log[4].op = "ListResourceRecordSets"
    /\ fetch[1].log[3].op = "ListResourceRecordSets"
    /\ fetch[1].pc = "done"

\* C12: the error of a failed zone listing is none that a failed record
\* listing gives, and the error of a failed record listing of zone Z is none
\* that a failed zone listing or a failed record listing of another zone
\* gives.
C12_ErrorCarriesOperationContext ==
    \A p \in DOMAIN fetch :
        LET f == fetch[p]
        IN  \A i \in FailedRequests(f.log) :
                f.pc = "done" =>
                    IF f.log[i].op = "ListHostedZones"
                    THEN \A z \in 1..f.nzones :
                             f.ret.err # RecordsError(BackendError, z)
                    ELSE /\ f.ret.err # ZonesError(BackendError)
                         /\ \A z \in 1..f.nzones :
                                z # f.log[i].zone
                                    => f.ret.err # RecordsError(BackendError, z)

\* C20: a call that has returned gave no collection and an error if one of
\* its requests failed, and a collection and no error if none did; never
\* both.
C20_CollectionOrError ==
    \A p \in DOMAIN fetch :
        LET f == fetch[p]
        IN  f.pc = "done" =>
                /\ ~(f.ret.list # Nil /\ f.ret.err # Nil)
                /\ IF FailedRequests(f.log) # {}
                   THEN f.ret.list = Nil /\ f.ret.err # Nil
                   ELSE f.ret.list # Nil /\ f.ret.err = Nil

\* The second zone's record listing failed after the first zone's resources
\* had been merged into the list: they are not returned.
C20_Witness ==
    /\ fetch[1].pc = "done"
    /\ FailedRequests(fetch[1].log) # {}
    /\ fetch[1].log[Len(fetch[1].log)].zone = 2
    /\ Len(fetch[1].list) >= 2
    /\ fetch[1].ret.list = Nil

(***************************************************************************)
(* Merge (Spec).                                                           *)
(***************************************************************************)
\* The collections a call holds: its list, the list of the record listing
\* in progress, and what each record listing returned.
CollectionsOf(f) ==
    {f.list, f.rlist} \cup { f.returned[i].items : i \in DOMAIN f.returned }

RECURSIVE ReturnedUpTo(_, _)
\* What the first n record listings of a call returned, one after another.
ReturnedUpTo(returned, n) ==
    IF n = 0 THEN <<>>
    ELSE [ i \in 1..(Len(ReturnedUpTo(returned, n - 1)) + Len(returned[n].items)) |->
             IF i <= Len(ReturnedUpTo(returned, n - 1))
             THEN ReturnedUpTo(returned, n - 1)[i]
             ELSE returned[n].items[i - Len(ReturnedUpTo(returned, n - 1))] ]

\* C17: Merge(A, B) has len(A)+len(B) elements, A's in order and then B's in
\* order, nothing dropped; Merge(Merge(A,B),C) = Merge(A,Merge(B,C)); and the
\* list of a call is what its record listings returned, merged in call order.
C17_MergeConcatenatesAndAssociates ==
    \A p \in DOMAIN fetch :
        LET f == fetch[p]
        IN  /\ \A A, B \in CollectionsOf(f) :
                   /\ Len(Merge(A, B)) = Len(A) + Len(B)
                   /\ \A n \in 1..Len(A) : Merge(A, B)[n] = A[n]
                   /\ \A n \in 1..Len(B) : Merge(A, B)[Len(A) + n] = B[n]
                   /\ \A C \in CollectionsOf(f) :
                          Merge(Merge(A, B), C) = Merge(A, Merge(B, C))
            /\ f.list = ReturnedUpTo(f.returned, Len(f.returned))

\* Two record listings returned different collections, the second holding a
\* resource the first holds too, and the list holds all of them.
C17_Witness ==
    LET f == fetch[1]
    IN  /\ Len(f.returned) = 2
        /\ Len(f.returned[1].items) = 1
        /\ Len(f.returned[2].items) = 2
        /\ f.returned[2].items[2] = f.returned[1].items[1]
        /\ Len(f.list) = 3

(***************************************************************************)
(* Provider and Profile of the resources (SpecRun).                        *)
(***************************************************************************)
\* Every resource a call holds or has returned.
HeldResources(f) ==
    { f.list[i] : i \in DOMAIN f.list } \cup { f.rlist[i] : i \in DOMAIN f.rlist }
    \cup (IF f.ret.list = Nil THEN {}
          ELSE { Deref(f.ret.list)[i] : i \in DOMAIN Deref(f.ret.list) })

\* C19: every resource of a provider instance carries the package's provider
\* name and the instance's profile, whatever the backend answered.
C19_ProviderAndProfileAreTheInstances ==
    \A p \in DOMAIN fetch :
        \A r \in HeldResources(fetch[p]) :
            /\ r.Provider = providerName
            /\ r.Profile = fetch[p].profile

\* Two instances with different profiles have both returned resources.
C19_Witness ==
    /\ Len(fetch) >= 2
    /\ fetch[1].profile # fetch[2].profile
    /\ fetch[1].ret.list # Nil /\ Deref(fetch[1].ret.list) # <<>>
    /\ fetch[2].ret.list # Nil /\ Deref(fetch[2].ret.list) # <<>>

(***************************************************************************)
(* Normalization (SpecNorm).                                               *)
(***************************************************************************)
\* The records of a call's only zone that the backend has served so far.
RawServed(f) == IF f.recPages = <<>> THEN <<>> ELSE ItemsOf(f.recPages[1])

\* Those of type "A", in order.
RawA(f) == SelectSeq(RawServed(f), LAMBDA item : item.Type = "A")

EndsWithDot(name) == name # <<>> /\ name[Len(name)] = "."

\* C13 as stated: no resource's DNSName ends with the delimiter.
C13_NeverEndsWithDelimiter ==
    \A p \in DOMAIN fetch :
        \A r \in HeldResources(fetch[p]) : ~EndsWithDot(r.DNSName)

\* C13: the DNSName of a resource ends with the delimiter exactly when the
\* raw record name ends with two or more delimiters; for a raw name that
\* ends with at most one it never does.
C13_EndsWithDelimiterOnlyAfterTwo ==
    \A p \in DOMAIN fetch :
        LET f == fetch[p]
        IN  \A k \in DOMAIN f.rlist :
                k <= Len(RawA(f)) =>
                    (EndsWithDot(f.rlist[k].DNSName)
                        <=> /\ Len(RawA(f)[k].Name) >= 2
                            /\ EndsWithDot(RawA(f)[k].Name)
                            /\ RawA(f)[k].Name[Len(RawA(f)[k].Name) - 1] = ".")

\* The raw name "a.." was served and gave the DNSName "a.".
C13_Witness ==
    LET f == fetch[1]
    IN  /\ f.pc = "done" /\ f.ret.err = Nil
        /\ Len(RawA(f)) = 1
        /\ RawA(f)[1].Name = <<"a", ".", ".">>
        /\ Deref(f.ret.list)[1].DNSName = <<"a", ".">>

\* C14: the DNSName is the raw name without its last character when that
\* is the delimiter, and the raw name itself when it is not.
C14_ExactlyOneDelimiterStripped ==
    \A p \in DOMAIN fetch :
        LET f == fetch[p]
        IN  /\ Len(f.rlist) = Len(RawA(f))
            /\ \A k \in DOMAIN f.rlist :
                   LET raw == RawA(f)[k].Name
                   IN  f.rlist[k].DNSName =
                           IF EndsWithDot(raw)
                           THEN [i \in 1..(Len(raw) - 1) |-> raw[i]]
                           ELSE raw

\* A name with an inner and a trailing delimiter lost the trailing one only.
C14_Witness ==
    LET f == fetch[1]
    IN  /\ f.pc = "done" /\ f.ret.err = Nil
        /\ Len(RawA(f)) = 1
        /\ RawA(f)[1].Name = <<"a", ".", "b", ".">>
        /\ Deref(f.ret.list)[1].DNSName = <<"a", ".", "b">>

\* C15: the resources are as many as the records served whose type is
\* exactly "A"; a record of any other type gives no resource and no error.
C15_RetainedIffTypeA ==
    \A p \in DOMAIN fetch :
        LET f == fetch[p]
            served == RawServed(f)
        IN  /\ Len(f.rlist) =
                   Cardinality({ k \in DOMAIN served : served[k].Type = "A" })
            /\ f.pc # "panic"
            /\ (f.pc = "done" /\ FailedRequests(f.log) = {})
                   => f.ret = [list |-> Ptr(f.rlist), err |-> Nil]

\* A record of type "AAAA" was served: the call returned an empty collection
\* and no error.
C15_Witness ==
    LET f == fetch[1]
    IN  /\ f.pc = "done"
        /\ Len(RawServed(f)) = 1
        /\ RawServed(f)[1].Type = "AAAA"
        /\ f.ret = [list |-> Ptr(<<>>), err |-> Nil]

\* The first address value of a record, "" when it is left out.
FirstValueOf(item) ==
    IF item.ResourceRecords[1].Value = Nil THEN <<>>
    ELSE item.ResourceRecords[1].Value[1]

\* C16: every "A" record gives a resource, whose PublicIPv4 is the record's
\* first value if it has values and "" if it has none.
C16_FirstValueOrEmpty ==
    \A p \in DOMAIN fetch :
        LET f == fetch[p]
        IN  /\ Len(RawA(f)) = Len(f.rlist)
            /\ \A k \in DOMAIN f.rlist :
                   f.rlist[k].PublicIPv4 =
                       IF Len(RawA(f)[k].ResourceRecords) = 0 THEN <<>>
                       ELSE FirstValueOf(RawA(f)[k])

\* An "A" record without values was returned as a resource with an empty
\* address, without error.
C16_Witness ==
    LET f == fetch[1]
    IN  /\ f.pc = "done" /\ f.ret.err = Nil
        /\ Len(RawA(f)) = 1
        /\ RawA(f)[1].ResourceRecords = <<>>
        /\ Len(Deref(f.ret.list)) = 1
        /\ Deref(f.ret.list)[1].PublicIPv4 = <<>>

(***************************************************************************)
(* Resolution of provider names (SpecNew).                                 *)
(***************************************************************************)
\* The blocks among the first n that declare a name the switch has no case
\* for.
Unrecognized(bs, n) ==
    { i \in 1..n : Declares(bs[i]) /\ bs[i]["provider"] \notin RegisteredNames }

InvalidName(value) == <<"invalid provider name found: ", value>>

\* C18: a block whose name is not exactly "aws", "do", "gcp" or "scw" gives
\* no provider and the error that names the value; only those four names
\* reach a constructor.
C18_UnknownNameIsAnErrorNamingIt ==
    /\ \A i \in Unrecognized(blocks, bi - 1) :
           /\ \A p \in DOMAIN inventory : inventory[p].origin # i
           /\ \E k \in DOMAIN warnings :
                  /\ warnings[k].value = blocks[i]["provider"]
                  /\ warnings[k].err = InvalidName(blocks[i]["provider"])
    /\ \A k \in DOMAIN warnings :
           IF warnings[k].value \in RegisteredNames
           THEN warnings[k].err # InvalidName(warnings[k].value)
           ELSE /\ warnings[k].err = InvalidName(warnings[k].value)
                /\ warnings[k].value \in { warnings[k].err[j] :
                                             j \in DOMAIN warnings[k].err }
    /\ \A p \in DOMAIN inventory :
           /\ inventory[p].name \in RegisteredNames
           /\ inventory[p].name = blocks[inventory[p].origin]["provider"]
    /\ Len(SelectSeq(warnings, LAMBDA w : w.value \notin RegisteredNames))
           = Cardinality(Unrecognized(blocks, bi - 1))

\* "AWS" with every key of aws, then "azure", then "aws": New has returned
\* one provider and the two errors naming "AWS" and "azure".
C18_Witness ==
    /\ newRet # Nil
    /\ Len(blocks) = 3
    /\ blocks[1] = UpperBlock /\ blocks[2] = UnknownBlock
    /\ Len(inventory) = 1 /\ inventory[1].origin = 3
    /\ Len(warnings) = 2
    /\ warnings[1].err = <<"invalid provider name found: ", "AWS">>
    /\ warnings[2].err = <<"invalid provider name found: ", "azure">>

====
